---------------------------- MODULE Spec2Model ----------------------------
(***************************************************************************)
(* A model of hassle-rs: the two orchestration entry points of             *)
(* src/src/utils.rs (compile_hlsl, validate_dxil), the string marshaling   *)
(* helpers of the same file (to_wide, from_wide, from_bstr, from_lpstr)    *)
(* and the reference-counted interface handle every interface of           *)
(* src/src/ffi.rs derives from (IDxcUnknownShim).                          *)
(*                                                                         *)
(* Three specifications share the module:                                  *)
(*   Spec     the orchestration entry points, one step per foreign call;   *)
(*   SpecStr  the marshaling helpers applied to bounded inputs;            *)
(*   SpecRef  the life cycle of interface handles.                         *)
(***************************************************************************)
EXTENDS Integers, Sequences, FiniteSets, TLC

VARIABLES
    \* ---- orchestration (Spec) ----
    pc,        \* position inside the running entry point, "idle" or "done"
    entry,     \* "none", "compile_hlsl" or "validate_dxil"
    libs,      \* what the platform loader finds: [dxc, dxil]
    calls,     \* the foreign/facade calls made by the running entry point
    opres,     \* the operation result handed back by Compile / Validate
    ret,       \* the value the entry point returned
    ncalls,    \* how many entry-point calls the host has made
    \* ---- string marshaling (SpecStr) ----
    windows,   \* cfg(windows)
    sop,       \* the marshaling function that ran, "none" before
    sin,       \* its input: a string (code points) or a foreign buffer (units)
    smem,      \* the memory the function read through its pointer
    sout,      \* its outcome: [tag, val]
    sev,       \* what it did with the foreign buffer, in order
    \* ---- interface handles (SpecRef) ----
    refCount,  \* per object: the foreign reference count
    handles,   \* per object: live host handles
    destroyed, \* per object: how many times the object was destroyed
    created,   \* per object: whether create_instance produced it
    probe      \* the count before and after the last add_ref;release pair

orchVars == <<pc, entry, libs, calls, opres, ret, ncalls>>
strVars  == <<windows, sop, sin, smem, sout, sev>>
refVars  == <<refCount, handles, destroyed, created, probe>>
vars     == <<orchVars, strVars, refVars>>

---------------------------------------------------------------------------
(* Bounds *)

\* Entry-point calls the host makes in one behaviour.
MaxCalls == 2

\* Foreign objects the host creates in one behaviour.
NumObjs == 3

\* Live handles one object has at most at a time.
MaxRefs == 3

\* Longest string / foreign buffer (in characters / units / bytes) marshaled.
MaxLen == 3

---------------------------------------------------------------------------
(* Orchestration: values *)

\* HRESULT values the foreign calls return: S_OK, E_FAIL, E_INVALIDARG.
HRESULTS == {0, -2147467259, -2147024809}

\* Contents of blobs the foreign component hands back.
Blobs == {<<>>, <<68, 88>>, <<68, 88, 66, 67>>}

\* Diagnostic texts held by error blobs.
Texts == {"", "error: expected '}'"}

\* What the platform loader can answer for a library.
LibStates == {"ok", "missing", "nosymbol"}

Ret(tag, bytes, msg, code, filename) ==
    [tag |-> tag, bytes |-> bytes, msg |-> msg, code |-> code, filename |-> filename]

NoRet == Ret("none", <<>>, "", 0, "")

Ok(bytes) == Ret("Ok", bytes, "", 0, "")

Win32Error(hr) == Ret("Win32Error", <<>>, "", hr, "")

CompileError(msg) == Ret("CompileError", <<>>, msg, 0, "")

ValidationError(msg) == Ret("ValidationError", <<>>, msg, 0, "")

LoadLibraryError(filename) == Ret("LoadLibraryError", <<>>, "", 0, filename)

LibLoadingError == Ret("LibLoadingError", <<>>, "", 0, "")

NoOpRes == [ok |-> FALSE, hr |-> 0, status |-> 0, result |-> <<>>, error |-> ""]

Call(op, hr, arg, why) == [op |-> op, hr |-> hr, arg |-> arg, why |-> why]


---------------------------------------------------------------------------
(* Orchestration: the facade calls compile_hlsl and validate_dxil make *)

\* The names the loader is asked for (utils.rs:94, utils.rs:144).
DxcLibName == "dxcompiler.dll"

DxilLibName == "dxil.dll"

\* A facade's test of a raw status.
Succeeded(hr) == hr = 0

\* Dxc::new() / Dxil::new(): the loader's answer st for library name.
LoadLibrary(name, st) ==
    IF st = "ok" THEN Ok(<<>>)
    ELSE IF st = "missing" THEN LoadLibraryError(name)
    ELSE LibLoadingError

\* create_compiler / create_library / create_validator: a non-success
\* status of the instance factory becomes a typed error with the raw code.
create_instance(hr) == IF Succeeded(hr) THEN Ok(<<>>) ELSE Win32Error(hr)

\* compiler.compile / validator.validate answer Ok(..) only when both the
\* call's HRESULT and the operation result's status are success.
ReportsSuccess(hr, status) == Succeeded(hr) /\ Succeeded(status)

\* library.get_blob_as_string(&error_blob): the text the blob holds.
get_blob_as_string(text) == text

\* blob.to_vec(): the bytes between the buffer pointer and its size.
to_vec(bytes) == [i \in 1..Len(bytes) |-> bytes[i]]

OpResults ==
    { [ok |-> ReportsSuccess(hr, st), hr |-> hr, status |-> st,
       result |-> b, error |-> t] :
        hr \in HRESULTS, st \in HRESULTS, b \in Blobs, t \in Texts }

---------------------------------------------------------------------------
(* Orchestration: the code of utils.rs *)

\* The `?` operator: on Err the function returns, on Ok it goes on.
QuestionIgnored(ok, next) == next

Question(ok, next) == IF ok THEN next ELSE "done"

\* .map_err(HassleError::Win32Error)
map_err_Win32ErrorLossy(hr) == Win32Error(-2147467259)

map_err_Win32Error(hr) == Win32Error(hr)

\* match result { Err(result) => .., Ok(result) => .. } of compile_hlsl
compile_matchRetry(ok) == IF ok THEN "c_get_result" ELSE "c_compile"

compile_matchSwapped(ok) == IF ok THEN "c_get_error_buffer" ELSE "c_get_result"

compile_match(ok) == IF ok THEN "c_get_result" ELSE "c_get_error_buffer"

\* match validator.validate(..) { Ok(blob) => .., Err(result) => .. }
validate_matchSwapped(ok) == IF ok THEN "v_get_error_buffer" ELSE "v_ok"

validate_match(ok) == IF ok THEN "v_ok" ELSE "v_get_error_buffer"

\* One call made at position here: it is logged, and `?` decides what follows.
Advance(here, c, r, next) ==
    /\ pc = here
    /\ calls' = Append(calls, c)
    /\ pc' = Question(r.tag = "Ok", next)
    /\ ret' = IF r.tag = "Ok" THEN ret ELSE r
    /\ UNCHANGED <<entry, libs, opres, ncalls, strVars, refVars>>

\* The host calls compile_hlsl; the loader's environment is whatever it is.
CallCompileHlsl ==
    /\ pc = "idle" /\ ncalls < MaxCalls
    /\ \E l \in [dxc : LibStates, dxil : LibStates] : libs' = l
    /\ entry' = "compile_hlsl"
    /\ pc' = "c_dxc_new"
    /\ calls' = <<>> /\ opres' = NoOpRes /\ ret' = NoRet
    /\ ncalls' = ncalls + 1
    /\ UNCHANGED <<strVars, refVars>>

\* let dxc = Dxc::new()?;
c_dxc_new ==
    Advance("c_dxc_new", Call("Dxc::new", 0, DxcLibName, libs.dxc),
            LoadLibrary(DxcLibName, libs.dxc), "c_create_compiler")

\* let compiler = dxc.create_compiler()?;
c_create_compiler ==
    \E hr \in HRESULTS :
        Advance("c_create_compiler", Call("create_compiler", hr, "", ""),
                create_instance(hr), "c_create_library")

\* let library = dxc.create_library()?;
c_create_library ==
    \E hr \in HRESULTS :
        Advance("c_create_library", Call("create_library", hr, "", ""),
                create_instance(hr), "c_create_blob")

\* let blob = library.create_blob_with_encoding_from_str(shader_text)
\*     .map_err(HassleError::Win32Error)?;
c_create_blob ==
    \E hr \in HRESULTS :
        Advance("c_create_blob", Call("create_blob", hr, "shader_text", ""),
                IF Succeeded(hr) THEN Ok(<<>>) ELSE map_err_Win32Error(hr),
                "c_compile")

\* let result = compiler.compile(&blob, .., Some(Box::new(DefaultIncludeHandler {})), defines);
\* match result { .. }
c_compile ==
    /\ pc = "c_compile"
    /\ \E r \in OpResults :
        /\ opres' = r
        /\ calls' = Append(calls, Call("Compile", r.hr, "DefaultIncludeHandler", ""))
        /\ pc' = compile_match(r.ok)
    /\ UNCHANGED <<entry, libs, ret, ncalls, strVars, refVars>>

\* Err(result) => { let error_blob = result.0.get_error_buffer()
\*     .map_err(HassleError::Win32Error)?; ..
c_get_error_buffer ==
    \E hr \in HRESULTS :
        Advance("c_get_error_buffer", Call("get_error_buffer", hr, "", ""),
                IF Succeeded(hr) THEN Ok(<<>>) ELSE map_err_Win32Error(hr),
                "c_compile_error")

\* .. Err(HassleError::CompileError(library.get_blob_as_string(&error_blob))) }
c_compile_error ==
    /\ pc = "c_compile_error"
    /\ calls' = Append(calls, Call("get_blob_as_string", 0, "", ""))
    /\ ret' = CompileError(get_blob_as_string(opres.error))
    /\ pc' = "done"
    /\ UNCHANGED <<entry, libs, opres, ncalls, strVars, refVars>>

\* Ok(result) => { let result_blob = result.get_result()
\*     .map_err(HassleError::Win32Error)?; Ok(result_blob.to_vec()) }
c_get_result ==
    /\ pc = "c_get_result"
    /\ \E hr \in HRESULTS :
        /\ calls' = Append(calls, Call("get_result", hr, "", ""))
        /\ ret' = IF Succeeded(hr) THEN Ok(to_vec(opres.result))
                  ELSE map_err_Win32Error(hr)
    /\ pc' = "done"
    /\ UNCHANGED <<entry, libs, opres, ncalls, strVars, refVars>>

\* The host calls validate_dxil.
CallValidateDxil ==
    /\ pc = "idle" /\ ncalls < MaxCalls
    /\ \E l \in [dxc : LibStates, dxil : LibStates] : libs' = l
    /\ entry' = "validate_dxil"
    /\ pc' = "v_dxc_new"
    /\ calls' = <<>> /\ opres' = NoOpRes /\ ret' = NoRet
    /\ ncalls' = ncalls + 1
    /\ UNCHANGED <<strVars, refVars>>

\* let dxc = Dxc::new()?;
v_dxc_new ==
    Advance("v_dxc_new", Call("Dxc::new", 0, DxcLibName, libs.dxc),
            LoadLibrary(DxcLibName, libs.dxc), "v_dxil_new")

\* let dxil = Dxil::new()?;
v_dxil_new ==
    Advance("v_dxil_new", Call("Dxil::new", 0, DxilLibName, libs.dxil),
            LoadLibrary(DxilLibName, libs.dxil), "v_create_validator")

\* let validator = dxil.create_validator()?;
v_create_validator ==
    \E hr \in HRESULTS :
        Advance("v_create_validator", Call("create_validator", hr, "", ""),
                create_instance(hr), "v_create_library")

\* let library = dxc.create_library()?;
v_create_library ==
    \E hr \in HRESULTS :
        Advance("v_create_library", Call("create_library", hr, "", ""),
                create_instance(hr), "v_create_blob")

\* let blob_encoding = library.create_blob_with_encoding(&data)
\*     .map_err(HassleError::Win32Error)?;
v_create_blob ==
    \E hr \in HRESULTS :
        Advance("v_create_blob", Call("create_blob", hr, "data", ""),
                IF Succeeded(hr) THEN Ok(<<>>) ELSE map_err_Win32Error(hr),
                "v_validate")

\* match validator.validate(blob_encoding.into()) { .. }
v_validate ==
    /\ pc = "v_validate"
    /\ \E r \in OpResults :
        /\ opres' = r
        /\ calls' = Append(calls, Call("Validate", r.hr, "", ""))
        /\ pc' = validate_match(r.ok)
    /\ UNCHANGED <<entry, libs, ret, ncalls, strVars, refVars>>

\* Ok(blob) => Ok(blob.to_vec()),
v_ok ==
    /\ pc = "v_ok"
    /\ ret' = Ok(to_vec(opres.result))
    /\ pc' = "done"
    /\ UNCHANGED <<entry, libs, calls, opres, ncalls, strVars, refVars>>

\* Err(result) => { let error_blob = result.0.get_error_buffer()
\*     .map_err(HassleError::Win32Error)?; ..
v_get_error_buffer ==
    \E hr \in HRESULTS :
        Advance("v_get_error_buffer", Call("get_error_buffer", hr, "", ""),
                IF Succeeded(hr) THEN Ok(<<>>) ELSE map_err_Win32Error(hr),
                "v_validation_error")

\* .. Err(HassleError::ValidationError(library.get_blob_as_string(&error_blob))) }
v_validation_error ==
    /\ pc = "v_validation_error"
    /\ calls' = Append(calls, Call("get_blob_as_string", 0, "", ""))
    /\ ret' = ValidationError(get_blob_as_string(opres.error))
    /\ pc' = "done"
    /\ UNCHANGED <<entry, libs, opres, ncalls, strVars, refVars>>

\* The entry point has returned; the host goes on and may call again.
HostContinues ==
    /\ pc = "done"
    /\ pc' = "idle"
    /\ UNCHANGED <<entry, libs, calls, opres, ret, ncalls, strVars, refVars>>

StrIdle ==
    /\ windows = FALSE /\ sop = "none" /\ sin = <<>> /\ smem = <<>>
    /\ sout = [tag |-> "none", val |-> <<>>] /\ sev = <<>>

RefIdle ==
    /\ refCount = <<>> /\ handles = <<>> /\ destroyed = <<>> /\ created = <<>>
    /\ probe = <<0, 0>>

OrchIdle ==
    /\ pc = "idle" /\ entry = "none"
    /\ libs = [dxc |-> "ok", dxil |-> "ok"]
    /\ calls = <<>> /\ opres = NoOpRes /\ ret = NoRet /\ ncalls = 0

Init == OrchIdle /\ StrIdle /\ RefIdle

Next ==
    \/ CallCompileHlsl
    \/ c_dxc_new
    \/ c_create_compiler
    \/ c_create_library
    \/ c_create_blob
    \/ c_compile
    \/ c_get_error_buffer
    \/ c_compile_error
    \/ c_get_result
    \/ CallValidateDxil
    \/ v_dxc_new
    \/ v_dxil_new
    \/ v_create_validator
    \/ v_create_library
    \/ v_create_blob
    \/ v_validate
    \/ v_ok
    \/ v_get_error_buffer
    \/ v_validation_error
    \/ HostContinues

Spec == Init /\ [][Next]_vars


---------------------------------------------------------------------------
(* String marshaling: encodings *)

SeqsUpTo(S, n) == UNION { [1..k -> S] : k \in 0..n }

\* Rust strings: sequences of Unicode scalar values (NUL, 'A', U+1F600).
StrChars == {0, 65, 128512}

Strings == SeqsUpTo(StrChars, MaxLen)

\* Units a foreign wide buffer can hold. WCHAR is u16 on windows (a
\* surrogate pair for U+1F600, either half alone being invalid) and u32
\* elsewhere (where a surrogate value is no character).
WideUnits(w) == IF w THEN {0, 65, 55357, 56832} ELSE {0, 65, 128512, 55357}

\* Bytes a foreign narrow buffer can hold: 'A', the two bytes of U+00E9, 0xFF.
NarrowBytes == {65, 195, 169, 255}

IsSurrogate(u) == u >= 55296 /\ u <= 57343

IsHighSurrogate(u) == u >= 55296 /\ u <= 56319

IsLowSurrogate(u) == u >= 56320 /\ u <= 57343

Result(tag, val) == [tag |-> tag, val |-> val]

RECURSIVE EncodeUtf16(_)
\* str::encode_utf16
EncodeUtf16(s) ==
    IF s = <<>> THEN <<>>
    ELSE LET c == Head(s) IN
         (IF c < 65536 THEN <<c>>
          ELSE <<55296 + ((c - 65536) \div 1024), 56320 + ((c - 65536) % 1024)>>)
         \o EncodeUtf16(Tail(s))

\* str::chars() as u32
EncodeUtf32(s) == [i \in 1..Len(s) |-> s[i]]

EncodeWide(w, s) == IF w THEN EncodeUtf16(s) ELSE EncodeUtf32(s)

RECURSIVE DecodeUtf16(_)
\* String::from_utf16: fails on an unpaired surrogate
DecodeUtf16(u) ==
    IF u = <<>> THEN Result("Ok", <<>>)
    ELSE IF ~IsSurrogate(Head(u))
    THEN LET r == DecodeUtf16(Tail(u)) IN
         IF r.tag = "Ok" THEN Result("Ok", <<Head(u)>> \o r.val) ELSE r
    ELSE IF IsHighSurrogate(Head(u)) /\ Len(u) >= 2 /\ IsLowSurrogate(u[2])
    THEN LET r == DecodeUtf16(Tail(Tail(u)))
             c == 65536 + (Head(u) - 55296) * 1024 + (u[2] - 56320)
         IN  IF r.tag = "Ok" THEN Result("Ok", <<c>> \o r.val) ELSE r
    ELSE Result("Err", <<>>)

\* U32Str::to_string: char::from_u32 on every unit
DecodeUtf32(u) ==
    IF \A i \in 1..Len(u) : ~IsSurrogate(u[i]) /\ u[i] <= 1114111
    THEN Result("Ok", [i \in 1..Len(u) |-> u[i]])
    ELSE Result("Err", <<>>)

DecodeWide(w, u) == IF w THEN DecodeUtf16(u) ELSE DecodeUtf32(u)

Utf8Len(b) ==
    IF b < 128 THEN 1
    ELSE IF b >= 194 /\ b <= 223 THEN 2
    ELSE IF b >= 224 /\ b <= 239 THEN 3
    ELSE IF b >= 240 /\ b <= 244 THEN 4
    ELSE 0

IsCont(b) == b >= 128 /\ b <= 191

RECURSIVE DecodeUtf8(_)
\* std::str::from_utf8
DecodeUtf8(b) ==
    IF b = <<>> THEN Result("Ok", <<>>)
    ELSE LET n == Utf8Len(Head(b)) IN
         IF n = 0 \/ Len(b) < n \/ \E i \in 2..n : ~IsCont(b[i])
         THEN Result("Err", <<>>)
         ELSE LET c == IF n = 1 THEN b[1]
                       ELSE IF n = 2 THEN (b[1] - 192) * 64 + (b[2] - 128)
                       ELSE IF n = 3 THEN (b[1] - 224) * 4096 + (b[2] - 128) * 64
                                          + (b[3] - 128)
                       ELSE (b[1] - 240) * 262144 + (b[2] - 128) * 4096
                            + (b[3] - 128) * 64 + (b[4] - 128)
                  r == DecodeUtf8(SubSeq(b, n + 1, Len(b)))
              IN  IF \/ (n = 3 /\ c < 2048)
                     \/ (n = 4 /\ (c < 65536 \/ c > 1114111))
                     \/ IsSurrogate(c)
                  THEN Result("Err", <<>>)
                  ELSE IF r.tag = "Ok" THEN Result("Ok", <<c>> \o r.val) ELSE r

---------------------------------------------------------------------------
(* String marshaling: the functions of utils.rs *)

HasNul(u) == \E i \in 1..Len(u) : u[i] = 0

RECURSIVE UntilNul(_)
\* The scan `while *p.offset(i) != NUL` over readable memory m.
UntilNul(m) ==
    IF m = <<>> \/ Head(m) = 0 THEN <<>> ELSE <<Head(m)>> \o UntilNul(Tail(m))

\* Result::unwrap / Result::expect
unwrap(r) == IF r.tag = "Ok" THEN r ELSE Result("panic", <<>>)

\* widestring::WideCString::from_str(msg)  -- Err(NulError) on an interior NUL
WideCString_from_str(w, msg) ==
    LET u == EncodeWide(w, msg) IN
    IF HasNul(u) THEN Result("Err", <<>>) ELSE Result("Ok", u \o <<0>>)

\* WideCString::into_vec: the units without the NUL terminator
into_vec(v) == SubSeq(v, 1, Len(v) - 1)

\* pub(crate) fn to_wide(msg: &str) -> Vec<WCHAR>
to_wide(w, msg) ==
    LET r == unwrap(WideCString_from_str(w, msg)) IN
    IF r.tag = "Ok" THEN Result("Ok", into_vec(r.val)) ELSE r

\* pub(crate) fn from_wide(wide: LPWSTR) -> String, m being the memory that
\* can be read from the pointer on. A scan that finds no NUL in m leaves it.
from_wide(w, m) ==
    IF ~HasNul(m) THEN Result("fault", <<>>)
    ELSE unwrap(DecodeWide(w, UntilNul(m)))

\* #[cfg(windows)] from_bstr, up to the decoding: len = SysStringLen(string),
\* WideCStr::from_ptr_with_nul(string, len).to_string().expect(..)
from_bstr_windowsTruncating(m, len) == from_wide(TRUE, m)

from_bstr_windows(m, len) == unwrap(DecodeUtf16(SubSeq(m, 1, len)))

\* #[cfg(not(windows))] from_bstr, up to the decoding: from_wide(string as LPWSTR)
from_bstr_fallback(m) == from_wide(FALSE, m)

\* pub(crate) fn from_lpstr(string: LPSTR) -> String
from_lpstr(m) ==
    IF ~HasNul(m) THEN Result("fault", <<>>)
    ELSE unwrap(DecodeUtf8(UntilNul(m)))

\* What a read past the end of a Vec's allocation may find: a zero unit, some
\* other unit and then a zero, or unmapped memory.
Beyond == {<<0>>, <<66, 0>>, <<>>}

\* The host is between two marshaling calls.
CanMarshal == sop = "none"

StrFrame == UNCHANGED <<windows, orchVars, refVars>>

\* The host encodes a string.
ToWide ==
    /\ CanMarshal
    /\ \E s \in Strings :
        /\ sop' = "to_wide" /\ sin' = s /\ smem' = <<>>
        /\ sout' = to_wide(windows, s)
        /\ sev' = <<>>
    /\ StrFrame

\* The host decodes a NUL-terminated wide buffer of the foreign component.
FromWide ==
    /\ CanMarshal
    /\ \E u \in SeqsUpTo(WideUnits(windows) \ {0}, MaxLen) :
        /\ sop' = "from_wide" /\ sin' = u /\ smem' = u \o <<0>>
        /\ sout' = from_wide(windows, u \o <<0>>)
        /\ sev' = <<"read">>
    /\ StrFrame

\* from_wide(to_wide(s).as_ptr()): the pointer is to the Vec's buffer, and
\* what follows the buffer is not the Vec's.
RoundTrip ==
    /\ CanMarshal
    /\ \E s \in Strings, tail \in Beyond :
        LET v == to_wide(windows, s) IN
        /\ sop' = "roundtrip" /\ sin' = s
        /\ IF v.tag = "Ok"
           THEN /\ smem' = v.val \o tail
                /\ sout' = from_wide(windows, v.val \o tail)
                /\ sev' = <<"read">>
           ELSE /\ smem' = <<>> /\ sout' = v /\ sev' = <<>>
    /\ StrFrame

\* from_bstr(string): the foreign component allocated a BSTR holding the
\* units u (its length prefix is Len(u) where the convention is honored) and
\* a terminator. The decoding comes first, SysFreeString(string) after it,
\* and a panic of the decoding leaves the function before the release.
FromBstr ==
    /\ CanMarshal
    /\ \E u \in SeqsUpTo(WideUnits(windows), MaxLen) :
        LET m == u \o <<0>>
            r == IF windows THEN from_bstr_windows(m, Len(u))
                 ELSE from_bstr_fallback(m)
            reads == IF windows THEN <<"SysStringLen", "read">> ELSE <<"read">>
        IN  /\ sop' = "from_bstr" /\ sin' = u /\ smem' = m
            /\ sout' = r
            /\ sev' = IF r.tag = "Ok" THEN reads \o <<"SysFreeString">> ELSE reads
    /\ StrFrame

\* The host decodes a NUL-terminated narrow buffer of the foreign component.
FromLpstr ==
    /\ CanMarshal
    /\ \E b \in SeqsUpTo(NarrowBytes, MaxLen) :
        /\ sop' = "from_lpstr" /\ sin' = b /\ smem' = b \o <<0>>
        /\ sout' = from_lpstr(b \o <<0>>)
        /\ sev' = <<"read">>
    /\ StrFrame

\* The call returned a value (it neither panicked nor faulted): the host
\* goes on and may make another marshaling call.
StrContinue ==
    /\ sop # "none" /\ sout.tag \notin {"panic", "fault"}
    /\ sop' = "none" /\ sin' = <<>> /\ smem' = <<>>
    /\ sout' = Result("none", <<>>) /\ sev' = <<>>
    /\ StrFrame

InitStr ==
    /\ OrchIdle /\ RefIdle
    /\ windows \in BOOLEAN
    /\ sop = "none" /\ sin = <<>> /\ smem = <<>>
    /\ sout = Result("none", <<>>) /\ sev = <<>>

NextStr ==
    \/ ToWide
    \/ FromWide
    \/ RoundTrip
    \/ FromBstr
    \/ FromLpstr
    \/ StrContinue

SpecStr == InitStr /\ [][NextStr]_vars

---------------------------------------------------------------------------
(* Interface handles: IDxcUnknownShim, the base of every interface *)

Objs == 1..NumObjs

\* add_ref(&self) -> u32: the new count
add_ref(c) == c + 1

\* release(&self) -> u32: the new count
releaseStuck(c) == c

release(c) == c - 1

\* The object is destroyed by the release that brings the count to zero.
destroys(c) == c = 0

RefFrame == UNCHANGED <<orchVars, strVars>>

\* create_instance: the factory hands out the object with one reference,
\* owned by the one handle it returns.
CreateInstance(o) ==
    /\ ~created[o]
    /\ created' = [created EXCEPT ![o] = TRUE]
    /\ refCount' = [refCount EXCEPT ![o] = 1]
    /\ handles' = [handles EXCEPT ![o] = 1]
    /\ UNCHANGED <<destroyed, probe>>
    /\ RefFrame

\* A handle is copied: the copy goes through add_ref.
CloneHandle(o) ==
    /\ handles[o] > 0 /\ handles[o] < MaxRefs
    /\ refCount' = [refCount EXCEPT ![o] = add_ref(refCount[o])]
    /\ handles' = [handles EXCEPT ![o] = handles[o] + 1]
    /\ UNCHANGED <<destroyed, created, probe>>
    /\ RefFrame

\* A handle is dropped: the drop performs one release.
DropHandle(o) ==
    /\ handles[o] > 0
    /\ LET c == release(refCount[o]) IN
        /\ refCount' = [refCount EXCEPT ![o] = c]
        /\ destroyed' = [destroyed EXCEPT ![o] =
                            IF destroys(c) THEN destroyed[o] + 1 ELSE destroyed[o]]
    /\ handles' = [handles EXCEPT ![o] = handles[o] - 1]
    /\ UNCHANGED <<created, probe>>
    /\ RefFrame

\* add_ref followed immediately by release through a live handle (a copy
\* that is dropped at once).
AddRefRelease(o) ==
    /\ handles[o] > 0
    /\ LET c == release(add_ref(refCount[o])) IN
        /\ probe' = <<refCount[o], c>>
        /\ refCount' = [refCount EXCEPT ![o] = c]
        /\ destroyed' = [destroyed EXCEPT ![o] =
                            IF destroys(c) THEN destroyed[o] + 1 ELSE destroyed[o]]
    /\ UNCHANGED <<handles, created>>
    /\ RefFrame

InitRef ==
    /\ OrchIdle /\ StrIdle
    /\ refCount = [o \in Objs |-> 0]
    /\ handles = [o \in Objs |-> 0]
    /\ destroyed = [o \in Objs |-> 0]
    /\ created = [o \in Objs |-> FALSE]
    /\ probe = <<0, 0>>

NextRef ==
    \E o \in Objs :
        \/ CreateInstance(o)
        \/ CloneHandle(o)
        \/ DropHandle(o)
        \/ AddRefRelease(o)

SpecRef == InitRef /\ [][NextRef]_vars

---------------------------------------------------------------------------
(* Orchestration: properties *)

Ops == [i \in DOMAIN calls |-> calls[i].op]

HasCall(op) == \E i \in DOMAIN calls : calls[i].op = op

Count(op) == Cardinality({i \in DOMAIN calls : calls[i].op = op})

\* The raw outcome of Compile / Validate as the foreign component gave it.
ForeignSuccess == opres.hr = 0 /\ opres.status = 0

Returned(e) == entry = e /\ pc = "done"

CompilePrefix ==
    <<"Dxc::new", "create_compiler", "create_library", "create_blob", "Compile">>

ValidatePrefix ==
    <<"Dxc::new", "Dxil::new", "create_validator", "create_library",
      "create_blob", "Validate">>

PrefixOk(prefix) ==
    /\ Len(calls) >= Len(prefix)
    /\ SubSeq(Ops, 1, Len(prefix)) = prefix
    /\ \A i \in 1..(Len(prefix) - 1) :
          calls[i].hr = 0 /\ calls[i].why \in {"", "ok"}

\* C1 as stated: once Compile was called, compile_hlsl returns Ok with the
\* result blob's bytes when Compile reports success and CompileError with the
\* error blob's text when it reports failure.
C1_AsStated ==
    (Returned("compile_hlsl") /\ HasCall("Compile")) =>
        IF ForeignSuccess THEN ret = Ok(opres.result)
        ELSE ret = CompileError(opres.error)

\* C1 (amended): compile_hlsl reaches Compile only after the library load and
\* the creation of the Compiler, the Library and the source blob succeeded, and
\* calls it with the default include handler. On a successful Compile it
\* returns Ok with exactly the result blob's bytes if get_result succeeds and
\* Win32Error with get_result's status otherwise; on a failed Compile it
\* returns CompileError with the error blob's text if get_error_buffer succeeds
\* and Win32Error with get_error_buffer's status otherwise. It never returns
\* Ok on a failed Compile nor CompileError on a successful one.
C1_CompileOutcome ==
    (Returned("compile_hlsl") /\ HasCall("Compile")) =>
        /\ PrefixOk(CompilePrefix)
        /\ calls[4].arg = "shader_text"
        /\ calls[5].arg = "DefaultIncludeHandler"
        /\ Len(calls) >= 6
        /\ IF ForeignSuccess
           THEN /\ calls[6].op = "get_result" /\ Len(calls) = 6
                /\ ret = IF calls[6].hr = 0 THEN Ok(opres.result)
                         ELSE Win32Error(calls[6].hr)
           ELSE /\ calls[6].op = "get_error_buffer"
                /\ ret = IF calls[6].hr = 0 THEN CompileError(opres.error)
                         ELSE Win32Error(calls[6].hr)
        /\ (ret.tag = "Ok" => ForeignSuccess)
        /\ (ret.tag = "CompileError" => ~ForeignSuccess)

\* A failed Compile reported as a CompileError with a non-empty message.
C1_Witness ==
    /\ Returned("compile_hlsl") /\ HasCall("Compile") /\ ~ForeignSuccess
    /\ ret.tag = "CompileError" /\ ret.msg # ""

\* C2 as stated: once Validate was called, validate_dxil returns Ok with the
\* returned blob's bytes on success and ValidationError with the error blob's
\* text on failure.
C2_AsStated ==
    (Returned("validate_dxil") /\ HasCall("Validate")) =>
        IF ForeignSuccess THEN ret = Ok(opres.result)
        ELSE ret = ValidationError(opres.error)

\* C2 (amended): validate_dxil loads the compiler library, then the validator
\* library, creates the validator and the Library, wraps the bytes as a blob
\* and calls Validate, which is never called unless all of these succeeded.
\* On success it returns Ok with the returned blob's bytes; on failure it
\* returns ValidationError with the error blob's text if get_error_buffer
\* succeeds and Win32Error with get_error_buffer's status otherwise.
C2_ValidateOutcome ==
    /\ (entry = "validate_dxil" /\ HasCall("Validate")) =>
          (PrefixOk(ValidatePrefix) /\ calls[5].arg = "data")
    /\ (Returned("validate_dxil") /\ HasCall("Validate")) =>
        IF ForeignSuccess
        THEN Len(calls) = 6 /\ ret = Ok(opres.result)
        ELSE /\ Len(calls) >= 7 /\ calls[7].op = "get_error_buffer"
             /\ ret = IF calls[7].hr = 0 THEN ValidationError(opres.error)
                      ELSE Win32Error(calls[7].hr)

\* A failed Validate reported as a ValidationError.
C2_Witness ==
    /\ Returned("validate_dxil") /\ HasCall("Validate") /\ ~ForeignSuccess
    /\ ret.tag = "ValidationError"

\* C3: when a library an entry point needs is missing, the call returns
\* LoadLibraryError carrying the requested name, and the failed load is the
\* last call it makes (no object or blob creation, no Compile, no Validate).
C3_MissingLibrary ==
    \A i \in DOMAIN calls :
        calls[i].why = "missing" =>
            /\ i = Len(calls)
            /\ pc \in {"done", "idle"}
            /\ calls[i].op \in {"Dxc::new", "Dxil::new"}
            /\ calls[i].arg =
                 (IF calls[i].op = "Dxc::new" THEN "dxcompiler.dll" ELSE "dxil.dll")
            /\ ret.tag = "LoadLibraryError" /\ ret.filename = calls[i].arg

\* validate_dxil returned with the compiler library present and the
\* validator library missing.
C3_Witness ==
    /\ Returned("validate_dxil") /\ libs.dxc = "ok" /\ libs.dxil = "missing"
    /\ ret.tag = "LoadLibraryError" /\ Len(calls) = 2

StatusCalls == {"Compile", "Validate", "create_blob", "get_result", "get_error_buffer"}

AllSucceeded ==
    /\ \A i \in DOMAIN calls : calls[i].hr = 0 /\ calls[i].why \in {"", "ok"}
    /\ opres.status = 0

\* C5 as stated: all statuses success gives Ok and no error text; a
\* non-success status of Compile, Validate, blob creation, get_result or
\* get_error_buffer gives an error value whose raw code is that status.
C5_AsStated ==
    pc = "done" =>
        /\ AllSucceeded => (ret.tag = "Ok" /\ ret.msg = "")
        /\ \A i \in DOMAIN calls :
              (calls[i].op \in StatusCalls /\ calls[i].hr # 0) =>
                  (ret.tag = "Win32Error" /\ ret.code = calls[i].hr)

\* C5 (amended): all statuses success gives Ok with the result bytes and no
\* error text; a non-success status of blob creation, get_result or
\* get_error_buffer gives Win32Error with exactly that status; a Compile or
\* Validate that reports failure gives CompileError / ValidationError, which
\* carries the error text and no raw code, unless get_error_buffer fails.
C5_StatusMapping ==
    pc = "done" =>
        /\ AllSucceeded =>
              (ret.tag = "Ok" /\ ret.msg = "" /\ ret.bytes = opres.result)
        /\ \A i \in DOMAIN calls :
              (calls[i].op \in {"create_blob", "get_result", "get_error_buffer"}
                 /\ calls[i].hr # 0) =>
                  (ret.tag = "Win32Error" /\ ret.code = calls[i].hr)
        /\ \A i \in DOMAIN calls :
              (calls[i].op \in {"Compile", "Validate"} /\ ~ForeignSuccess) =>
                  \/ /\ ret.tag = (IF calls[i].op = "Compile" THEN "CompileError"
                                   ELSE "ValidationError")
                     /\ ret.msg = opres.error /\ ret.code = 0
                  \/ /\ ret.tag = "Win32Error"
                     /\ calls[Len(calls)].op = "get_error_buffer"
                     /\ ret.code = calls[Len(calls)].hr
        /\ ret.tag = "Ok" => AllSucceeded

\* get_result failed after a successful Compile: Win32Error with its status.
C5_Witness ==
    /\ Returned("compile_hlsl") /\ HasCall("get_result")
    /\ calls[Len(calls)].hr = -2147024809
    /\ ret = Win32Error(-2147024809)

\* C6: Compile and Validate are each called at most once per entry-point
\* call; after a reported failure only the error text is fetched, the error
\* is returned, and nothing else is called.
C6_NoRetry ==
    /\ Count("Compile") <= 1 /\ Count("Validate") <= 1
    /\ Count("Compile") + Count("Validate") <= 1
    /\ \A i \in DOMAIN calls :
          (calls[i].op \in {"Compile", "Validate"} /\ ~ForeignSuccess) =>
              \A j \in (i + 1)..Len(calls) :
                  calls[j].op \in {"get_error_buffer", "get_blob_as_string"}
    /\ ret.tag # "none" => pc \in {"done", "idle"}
    /\ \A i \in DOMAIN calls :
          (calls[i].hr # 0 /\ calls[i].op # "Compile" /\ calls[i].op # "Validate")
              => i = Len(calls)

\* The second entry-point call of the host, a validate_dxil whose Validate
\* failed and was reported.
C6_Witness ==
    /\ ncalls = 2 /\ Returned("validate_dxil") /\ Count("Validate") = 1
    /\ opres.hr # 0 /\ ret.tag = "ValidationError"

---------------------------------------------------------------------------
(* String marshaling: properties *)

Occurrences(q, e) == Cardinality({i \in DOMAIN q : q[i] = e})

\* v is u up to, not including, its first zero unit.
IsPrefixToNul(v, u) ==
    /\ Len(v) <= Len(u)
    /\ \A i \in 1..Len(v) : v[i] = u[i] /\ v[i] # 0
    /\ (Len(v) = Len(u) \/ u[Len(v) + 1] = 0)

\* C7 as stated: for every string s, the empty one and those holding a NUL
\* included, to_wide(s) succeeds and from_wide(to_wide(s)) = s.
C7_AsStated ==
    sop = "roundtrip" => sout = Result("Ok", sin)

\* C8: where the length prefix is honored (windows) from_bstr decodes exactly
\* the prefixed number of units, so embedded NULs are kept and the text is the
\* buffer's; on the fallback path the text is the buffer up to, not
\* including, its first NUL.
C8_FromBstr ==
    (sop = "from_bstr" /\ sout.tag = "Ok") =>
        IF windows
        THEN /\ EncodeUtf16(sout.val) = sin
             /\ Occurrences(sout.val, 0) = Occurrences(sin, 0)
        ELSE IsPrefixToNul(sout.val, sin)

\* A BSTR with an embedded NUL decoded in full on windows.
C8_Witness ==
    /\ windows /\ sop = "from_bstr" /\ sout.tag = "Ok"
    /\ sin = <<65, 0, 65>> /\ sout.val = <<65, 0, 65>>

\* C9 as stated: a marshaling call ends by returning a text or a
\* decoding-failure error value, never by aborting.
C9_AsStated ==
    sop \in {"to_wide", "from_wide", "from_bstr", "from_lpstr"} =>
        sout.tag \in {"Ok", "Err"}

\* C10 as stated: by the end of from_bstr the buffer was released through
\* SysFreeString exactly once, after its last read, on either platform and
\* whatever the decoding gave.
C10_AsStated ==
    sop = "from_bstr" =>
        /\ Occurrences(sev, "SysFreeString") = 1
        /\ sev[Len(sev)] = "SysFreeString"
        /\ Occurrences(sev, "dealloc") = 0

---------------------------------------------------------------------------
(* Interface handles: properties *)

\* C4: through creation, handle copies and handle drops the reference count
\* equals the number of live handles and is never negative; add_ref followed
\* at once by release leaves it unchanged; the object is destroyed exactly
\* once, by the release that brings the count to zero, never while a handle
\* is live.
C4_RefCount ==
    /\ probe[1] = probe[2]
    /\ \A o \in Objs :
        /\ refCount[o] >= 0
        /\ refCount[o] = handles[o]
        /\ destroyed[o] <= 1
        /\ (destroyed[o] = 1) <=> (created[o] /\ refCount[o] = 0)
        /\ handles[o] > 0 => destroyed[o] = 0

\* An object whose handle was copied, probed with add_ref;release while two
\* handles were live, and destroyed by the drop of the last handle.
C4_Witness ==
    /\ probe = <<2, 2>>
    /\ \E o \in Objs : created[o] /\ handles[o] = 0 /\ destroyed[o] = 1

=============================================================================
